---- MODULE Spec2Model ----
(***************************************************************************)
(* Model of mcmodmanager: the Maven version order and version ranges of    *)
(* health2.py, its DependencyChecker, and the dependency closure of        *)
(* ModSearcher (searcher.py).                                              *)
(*                                                                         *)
(* A Python str is a sequence of one-character strings, so that split,     *)
(* strip, isdigit, lower, int() and str() are computed, not assumed.       *)
(***************************************************************************)
EXTENDS Integers, Sequences, FiniteSets, TLC

VARIABLES
    \* ---- version algebra (MavenVersion, VersionRange) ----
    va, vb, vc,        \* three inputs: raw version strings, or interval lists
    vpc,               \* "idle" | "in" | "compared" | "ranged" | "ranges" | "intersected"
                       \* | "forms" | "parsed" | "qualified"
    vout,              \* results of the last evaluation
    \* ---- DependencyChecker ----
    mods,              \* self.mods: sequence of ModInfo
    mod_map,           \* self.mod_map: mod_id -> index into mods
    special_requirements, \* self.special_requirements: id -> <<[name, range]>>
    issues,            \* findings of check_dependencies, in order
    all_satisfied,     \* first component of check_dependencies' result
    summary,           \* lines of get_special_requirements_summary, in order
    cpc,               \* "idle" | "new" | "built" | "checked" | "summarised"
    \* ---- ModSearcher ----
    reg,               \* the registry snapshot (Modrinth or CurseForge)
    releaseType,       \* the releaseType argument (None or a string)
    slugs0,            \* the caller's list when the call was made
    slugs,             \* the caller's list object, as the callee leaves it
    result,            \* the result list
    versions,          \* search_modrinth: the list the loop reads
    bucket_mod,        \* search_modrinth: seen projects / search_curseforge: bucket
    bucket_ver,        \* search_modrinth: seen versions
    looked,            \* projects handed to get_latest_versions so far, in order
    spc                \* "idle" | "mr_start" | "mr_loop" | "mr_done" |
                       \* "cf_start" | "cf_loop" | "cf_done" | "raised"

vvars == <<va, vb, vc, vpc, vout>>
cvars == <<mods, mod_map, special_requirements, issues, all_satisfied, summary, cpc>>
svars == <<reg, releaseType, slugs0, slugs, result, versions, bucket_mod,
           bucket_ver, looked, spc>>
vars == <<vvars, cvars, svars>>

\* Python's None, for a value that is otherwise an id (an atomic string), a
\* str (a character sequence) or a MavenVersion (a record)
None == "None"
NoneStr == <<"None">>
NoneVersion == [none |-> TRUE]

-----------------------------------------------------------------------------
(* Python str primitives on character sequences                            *)

\* The characters used, in code-point order (str comparison is by code point).
\* "^2" stands for the one character U+00B2 (superscript two): str.isdigit()
\* is True for it and int() raises ValueError.
Alphabet ==
    <<" ", "$", "(", ")", "*", ",", "-", ".",
      "0", "1", "2", "3", "4", "5", "6", "7", "8", "9",
      "A", "B", "C", "D", "E", "F", "G", "H", "I", "J", "K", "L", "M",
      "N", "O", "P", "Q", "R", "S", "T", "U", "V", "W", "X", "Y", "Z",
      "[", "]",
      "a", "b", "c", "d", "e", "f", "g", "h", "i", "j", "k", "l", "m",
      "n", "o", "p", "q", "r", "s", "t", "u", "v", "w", "x", "y", "z",
      "{", "}", "^2">>

Ord(c) == CHOOSE i \in 1..Len(Alphabet) : Alphabet[i] = c

Digits == <<"0", "1", "2", "3", "4", "5", "6", "7", "8", "9">>

IsDigitChar(c) == c = "^2" \/ \E i \in 1..10 : Digits[i] = c

\* int(s) raises ValueError for a str.isdigit() string that is not decimal
IntRaises(s) == \E i \in 1..Len(s) : s[i] = "^2"

DigitVal(c) == (CHOOSE i \in 1..10 : Digits[i] = c) - 1

\* str.isdigit(): non-empty and every character a digit
IsDigit(s) == Len(s) > 0 /\ \A i \in 1..Len(s) : IsDigitChar(s[i])

RECURSIVE ToInt(_)
\* int(s) for a digit string
ToInt(s) ==
    IF Len(s) = 0 THEN 0
    ELSE 10 * ToInt(SubSeq(s, 1, Len(s) - 1)) + DigitVal(s[Len(s)])

RECURSIVE ToStr(_)
\* str(n) for n >= 0
ToStr(n) ==
    IF n < 10 THEN <<Digits[n + 1]>>
    ELSE Append(ToStr(n \div 10), Digits[(n % 10) + 1])

Uppercase ==
    <<"A", "B", "C", "D", "E", "F", "G", "H", "I", "J", "K", "L", "M",
      "N", "O", "P", "Q", "R", "S", "T", "U", "V", "W", "X", "Y", "Z">>

Lowercase ==
    <<"a", "b", "c", "d", "e", "f", "g", "h", "i", "j", "k", "l", "m",
      "n", "o", "p", "q", "r", "s", "t", "u", "v", "w", "x", "y", "z">>

LowerChar(c) ==
    IF \E i \in 1..Len(Uppercase) : Uppercase[i] = c
    THEN Lowercase[CHOOSE i \in 1..Len(Uppercase) : Uppercase[i] = c]
    ELSE c

\* str.lower()
Lower(s) == [i \in 1..Len(s) |-> LowerChar(s[i])]

RECURSIVE StrLt(_, _)
\* s < t for two str: lexicographic by code point, a proper prefix is smaller
StrLt(s, t) ==
    IF Len(t) = 0 THEN FALSE
    ELSE IF Len(s) = 0 THEN TRUE
    ELSE IF s[1] # t[1] THEN Ord(s[1]) < Ord(t[1])
    ELSE StrLt(Tail(s), Tail(t))

StrGe(s, t) == ~StrLt(s, t)

RECURSIVE SplitFrom(_, _, _, _)
SplitFrom(s, seps, i, cur) ==
    IF i > Len(s) THEN <<cur>>
    ELSE IF s[i] \in seps THEN <<cur>> \o SplitFrom(s, seps, i + 1, <<>>)
    ELSE SplitFrom(s, seps, i + 1, Append(cur, s[i]))

\* re.split(r'[.\-]', s) and s.split(','): every separator cuts, empty
\* pieces are kept
Split(s, seps) == SplitFrom(s, seps, 1, <<>>)

RECURSIVE LStrip(_)
LStrip(s) == IF Len(s) > 0 /\ s[1] = " " THEN LStrip(Tail(s)) ELSE s

RECURSIVE RStrip(_)
RStrip(s) ==
    IF Len(s) > 0 /\ s[Len(s)] = " " THEN RStrip(SubSeq(s, 1, Len(s) - 1))
    ELSE s

\* str.strip()
Strip(s) == LStrip(RStrip(s))

-----------------------------------------------------------------------------
(* MavenVersion                                                            *)

IntPart(n) == [kind |-> "int", n |-> n, s |-> <<>>, orig |-> <<>>]
QualifierPart(rank, seg) == [kind |-> "qualifier", n |-> rank, s |-> <<>>, orig |-> seg]
StrPart(seg) == [kind |-> "str", n |-> 0, s |-> Lower(seg), orig |-> seg]
\* int(segment) raised: the constructor does not return
RaisedPart(seg) == [kind |-> "ValueError", n |-> 0, s |-> <<>>, orig |-> seg]

\* the qualifier vocabulary of _parse: rank of a lowercased segment, 0 if none
QualifierRank(low) ==
    CASE low \in {<<"a", "l", "p", "h", "a">>, <<"a">>} -> 1
      [] low \in {<<"b", "e", "t", "a">>, <<"b">>} -> 2
      [] low \in {<<"m", "i", "l", "e", "s", "t", "o", "n", "e">>, <<"m">>} -> 3
      [] low \in {<<"r", "c">>, <<"c", "r">>} -> 4
      [] low = <<"s", "n", "a", "p", "s", "h", "o", "t">> -> 5
      [] low \in {<<"f", "i", "n", "a", "l">>, <<"g", "a">>} -> 6
      [] OTHER -> 0

ParseSegment(seg) ==
    IF IsDigit(seg)
    THEN (IF IntRaises(seg) THEN <<RaisedPart(seg)>> ELSE <<IntPart(ToInt(seg))>>)
    ELSE IF Len(seg) = 0 THEN <<>>
    ELSE IF QualifierRank(Lower(seg)) > 0
         THEN <<QualifierPart(QualifierRank(Lower(seg)), seg)>>
    ELSE <<StrPart(seg)>>

RECURSIVE ParseSegments(_)
ParseSegments(segs) ==
    IF Len(segs) = 0 THEN <<>>
    ELSE ParseSegment(Head(segs)) \o ParseSegments(Tail(segs))

\* MavenVersion._parse
MavenVersion_parse(version_str) == ParseSegments(Split(version_str, {".", "-"}))

\* MavenVersion(version_str)
MavenVersion(version_str) ==
    [original |-> version_str, parts |-> MavenVersion_parse(version_str)]

\* MavenVersion(version_str) raises (int() in _parse)
MavenVersion_raises(version_str) ==
    \E i \in 1..Len(MavenVersion_parse(version_str)) :
        MavenVersion_parse(version_str)[i].kind = "ValueError"

\* a round of _compare that ranks a qualifier above a number
ComparePartQualifierLast(p1, p2) ==
    IF p1.kind = "int" /\ p2.kind = "int" THEN p1.n - p2.n
    ELSE IF p1.kind = "int" /\ p2.kind = "qualifier" THEN -1
    ELSE IF p1.kind = "qualifier" /\ p2.kind = "int" THEN 1
    ELSE IF p1.kind = "qualifier" /\ p2.kind = "qualifier" THEN
        IF p1.n # p2.n THEN p1.n - p2.n
        ELSE IF p1.orig # p2.orig THEN (IF StrLt(p1.orig, p2.orig) THEN -1 ELSE 1)
        ELSE 0
    ELSE
        LET s1 == IF p1.kind = "str" THEN p1.s ELSE ToStr(p1.n)
            s2 == IF p2.kind = "str" THEN p2.s ELSE ToStr(p2.n)
        IN  IF s1 # s2 THEN (IF StrLt(s1, s2) THEN -1 ELSE 1) ELSE 0

\* one round of the loop of _compare: 0 means "go on to the next position"
ComparePart(p1, p2) ==
    IF p1.kind = "int" /\ p2.kind = "int" THEN p1.n - p2.n
    ELSE IF p1.kind = "int" /\ p2.kind = "qualifier" THEN 1
    ELSE IF p1.kind = "qualifier" /\ p2.kind = "int" THEN -1
    ELSE IF p1.kind = "qualifier" /\ p2.kind = "qualifier" THEN
        IF p1.n # p2.n THEN p1.n - p2.n
        ELSE IF p1.orig # p2.orig THEN (IF StrLt(p1.orig, p2.orig) THEN -1 ELSE 1)
        ELSE 0
    ELSE
        LET s1 == IF p1.kind = "str" THEN p1.s ELSE ToStr(p1.n)
            s2 == IF p2.kind = "str" THEN p2.s ELSE ToStr(p2.n)
        IN  IF s1 # s2 THEN (IF StrLt(s1, s2) THEN -1 ELSE 1) ELSE 0

RECURSIVE CompareFrom(_, _, _)
CompareFrom(ps, qs, i) ==
    IF i > (IF Len(ps) > Len(qs) THEN Len(ps) ELSE Len(qs)) THEN 0
    ELSE LET p1 == IF i <= Len(ps) THEN ps[i] ELSE IntPart(0)
             p2 == IF i <= Len(qs) THEN qs[i] ELSE IntPart(0)
             c  == ComparePart(p1, p2)
         IN  IF c # 0 THEN c ELSE CompareFrom(ps, qs, i + 1)

\* MavenVersion._compare
MavenVersion_compare(self, other) == CompareFrom(self.parts, other.parts, 1)

\* MavenVersion.__eq__
MavenVersion_eq(self, other) == MavenVersion_compare(self, other) = 0

\* MavenVersion.__hash__: the hash of a str is a function of the str alone
MavenVersion_hash(self) == self.original

\* MavenVersion.__lt__, and what functools.total_ordering derives from it
MavenVersion_lt(self, other) == MavenVersion_compare(self, other) < 0
MavenVersion_le(self, other) == MavenVersion_lt(self, other) \/ MavenVersion_eq(self, other)
MavenVersion_gt(self, other) == ~MavenVersion_lt(self, other) /\ ~MavenVersion_eq(self, other)
MavenVersion_ge(self, other) == ~MavenVersion_lt(self, other)

Sign(n) == IF n < 0 THEN -1 ELSE IF n > 0 THEN 1 ELSE 0

-----------------------------------------------------------------------------
(* VersionRange                                                            *)

Interval(min_ver, min_inc, max_ver, max_inc) ==
    [min |-> min_ver, min_inc |-> min_inc, max |-> max_ver, max_inc |-> max_inc]

\* "(MavenVersion(range_str), True, None, False)": this version or newer
SoftInterval(range_str) == Interval(MavenVersion(range_str), TRUE, NoneVersion, FALSE)

HasRangeChar(s) == \E i \in 1..Len(s) : s[i] \in {"[", "]", "(", ")", ","}

\* the body of the loop of parse for one piece of range_str.split(',')
ParsePart(part0) ==
    LET part == Strip(part0) IN
    IF Len(part) = 0 THEN <<>>
    ELSE IF part[1] \in {"[", "("} THEN
        LET min_inclusive == part[1] = "["
            p1 == Tail(part)
            closed == Len(p1) > 0 /\ p1[Len(p1)] \in {"]", ")"}
            max_inclusive == closed /\ p1[Len(p1)] = "]"
            p2 == IF closed THEN SubSeq(p1, 1, Len(p1) - 1) ELSE p1
            pieces == Split(p2, {","})
            vs == [i \in 1..Len(pieces) |-> Strip(pieces[i])]
            min_ver == IF Len(vs[1]) > 0 THEN MavenVersion(vs[1]) ELSE NoneVersion
            max_ver == IF Len(vs) > 1 /\ Len(vs[2]) > 0 THEN MavenVersion(vs[2])
                       ELSE NoneVersion
        IN  <<Interval(min_ver, min_inclusive, max_ver, max_inclusive)>>
    ELSE <<>>

RECURSIVE ParseParts(_)
ParseParts(parts) ==
    IF Len(parts) = 0 THEN <<>>
    ELSE ParsePart(Head(parts)) \o ParseParts(Tail(parts))

\* parse without the fall-back of the last lines: the groups found, even if none
VersionRange_parse_groups_only(range_str0) ==
    LET range_str == Strip(range_str0) IN
    IF ~HasRangeChar(range_str) THEN <<SoftInterval(range_str)>>
    ELSE ParseParts(Split(range_str, {","}))

\* VersionRange.parse: the interval list of the range
VersionRange_parse(range_str0) ==
    LET range_str == Strip(range_str0) IN
    IF ~HasRangeChar(range_str) THEN <<SoftInterval(range_str)>>
    ELSE LET intervals == ParseParts(Split(range_str, {","}))
         IN  IF Len(intervals) = 0 THEN <<SoftInterval(range_str)>>
             ELSE intervals

\* VersionRange.parse raises: one of its MavenVersion(...) does
VersionRange_parse_raises(range_str) ==
    LET intervals == VersionRange_parse(range_str) IN
    \E i \in 1..Len(intervals) :
        \/ intervals[i].min # NoneVersion /\ MavenVersion_raises(intervals[i].min.original)
        \/ intervals[i].max # NoneVersion /\ MavenVersion_raises(intervals[i].max.original)

\* one interval of the loop of contains: TRUE when no check "continue"s
IntervalContains(iv, version) ==
    /\ iv.min # NoneVersion =>
          /\ ~(iv.min_inc /\ MavenVersion_lt(version, iv.min))
          /\ ~(~iv.min_inc /\ MavenVersion_le(version, iv.min))
    /\ iv.max # NoneVersion =>
          /\ ~(iv.max_inc /\ MavenVersion_gt(version, iv.max))
          /\ ~(~iv.max_inc /\ MavenVersion_ge(version, iv.max))

\* VersionRange.contains
VersionRange_contains(intervals, version) ==
    \/ Len(intervals) = 0
    \/ \E i \in 1..Len(intervals) : IntervalContains(intervals[i], version)

\* the body of the two loops of intersect for one pair of intervals
IntersectPair(int1, int2) ==
    LET lo == IF int1.min = NoneVersion THEN <<int2.min, int2.min_inc>>
              ELSE IF int2.min = NoneVersion THEN <<int1.min, int1.min_inc>>
              ELSE IF MavenVersion_gt(int1.min, int2.min) THEN <<int1.min, int1.min_inc>>
              ELSE IF MavenVersion_lt(int1.min, int2.min) THEN <<int2.min, int2.min_inc>>
              ELSE <<int1.min, int1.min_inc /\ int2.min_inc>>
        hi == IF int1.max = NoneVersion THEN <<int2.max, int2.max_inc>>
              ELSE IF int2.max = NoneVersion THEN <<int1.max, int1.max_inc>>
              ELSE IF MavenVersion_lt(int1.max, int2.max) THEN <<int1.max, int1.max_inc>>
              ELSE IF MavenVersion_gt(int1.max, int2.max) THEN <<int2.max, int2.max_inc>>
              ELSE <<int1.max, int1.max_inc /\ int2.max_inc>>
        empty == /\ lo[1] # NoneVersion
                 /\ hi[1] # NoneVersion
                 /\ \/ MavenVersion_gt(lo[1], hi[1])
                    \/ MavenVersion_eq(lo[1], hi[1]) /\ ~(lo[2] /\ hi[2])
    IN  IF empty THEN <<>> ELSE <<Interval(lo[1], lo[2], hi[1], hi[2])>>

RECURSIVE IntersectFrom(_, _, _, _)
IntersectFrom(a, b, i, j) ==
    IF i > Len(a) THEN <<>>
    ELSE IF j > Len(b) THEN IntersectFrom(a, b, i + 1, 1)
    ELSE IntersectPair(a[i], b[j]) \o IntersectFrom(a, b, i, j + 1)

\* VersionRange.intersect
VersionRange_intersect(self, other) == IntersectFrom(self, other, 1, 1)

\* VersionRange.is_empty
VersionRange_is_empty(intervals) == Len(intervals) = 0

-----------------------------------------------------------------------------
(* The version algebra applied to inputs drawn from VersionStrings         *)

\* the raw version strings the operations are applied to
VersionStrings ==
    {
      <<>>,  \* (empty)
      <<"1", ".", "0">>,  \* 1.0
      <<"1", ".", "0", ".", "0">>,  \* 1.0.0
      <<"2", ".", "0">>,  \* 2.0
      <<"1", ".", "5">>,  \* 1.5
      <<"2">>,  \* 2
      <<"1", "0">>,  \* 10
      <<"1", "x">>,  \* 1x
      <<"1", ".", "0", "-", "a", "l", "p", "h", "a">>,  \* 1.0-alpha
      <<"1", ".", "0", "-", "a">>,  \* 1.0-a
      <<"1", ".", "0", "-", "A", "l", "p", "h", "a">>,  \* 1.0-Alpha
      <<"1", ".", "0", "-", "b", "e", "t", "a">>,  \* 1.0-beta
      <<"1", ".", "0", "-", "S", "N", "A", "P", "S", "H", "O", "T">>,  \* 1.0-SNAPSHOT
      <<"1", ".", "0", "-", "f", "i", "n", "a", "l">>,  \* 1.0-final
      <<"1", ".", "0", "-", "g", "a">>,  \* 1.0-ga
      <<"1", ".", "2", ".", "3">>,  \* 1.2.3
      <<"1", ".", "2", ".", "4">>,  \* 1.2.4
      <<"2", ".", "5", ".", "0">>,  \* 2.5.0
      <<"3", ".", "5", ".", "0">>,  \* 3.5.0
      <<"1", ".", "0", "-", "x">>,  \* 1.0-x
      <<"$", "{", "v", "e", "r", "s", "i", "o", "n", "}">>   \* ${version}
    }

\* the range string "[lo,hi)"
BracketRange(lo, hi) == <<"[">> \o lo \o <<",">> \o hi \o <<")">>

IdleVersion == va = <<>> /\ vb = <<>> /\ vc = <<>> /\ vpc = "idle" /\ vout = <<>>

IdleChecker ==
    /\ mods = <<>> /\ mod_map = <<>> /\ special_requirements = <<>>
    /\ issues = <<>> /\ all_satisfied = TRUE /\ summary = <<>> /\ cpc = "idle"

IdleSearcher ==
    /\ reg = <<>> /\ releaseType = NoneStr /\ slugs0 = <<>> /\ slugs = <<>>
    /\ result = <<>> /\ versions = <<>> /\ bucket_mod = {} /\ bucket_ver = {}
    /\ looked = <<>> /\ spc = "idle"

InitVersion ==
    /\ va \in VersionStrings /\ vb \in VersionStrings /\ vc \in VersionStrings
    /\ vpc = "in" /\ vout = <<>>
    /\ IdleChecker /\ IdleSearcher

\* a._compare(b), b._compare(a), b._compare(c), a._compare(c), a == b and
\* hash(a) == hash(b) for a = MavenVersion(va), b = MavenVersion(vb), ...
Compare ==
    /\ vpc = "in"
    /\ LET a == MavenVersion(va)
           b == MavenVersion(vb)
           c == MavenVersion(vc)
       IN  vout' = [ab |-> MavenVersion_compare(a, b),
                    ba |-> MavenVersion_compare(b, a),
                    bc |-> MavenVersion_compare(b, c),
                    ac |-> MavenVersion_compare(a, c),
                    eq |-> MavenVersion_eq(a, b),
                    same_hash |-> MavenVersion_hash(a) = MavenVersion_hash(b)]
    /\ vpc' = "compared"
    /\ UNCHANGED <<va, vb, vc, cvars, svars>>

\* VersionRange.parse("[va,vb)").contains(MavenVersion(vc))
ParseContains ==
    /\ vpc = "in"
    /\ LET range == VersionRange_parse(BracketRange(va, vb))
       IN  vout' = [range |-> range,
                    contains |-> VersionRange_contains(range, MavenVersion(vc))]
    /\ vpc' = "ranged"
    /\ UNCHANGED <<va, vb, vc, cvars, svars>>

NextVersion == Compare \/ ParseContains

SpecVersion == InitVersion /\ [][NextVersion]_vars

-----------------------------------------------------------------------------
(* Claims about the version algebra (under SpecVersion)                    *)

\* C1: a bracketed range "[lo,hi)" keeps both bounds: it contains v exactly
\* when lo <= v and v < hi in MavenVersion order.
C1_BracketKeepsBothBounds ==
    (vpc = "ranged" /\ va # <<>> /\ vb # <<>>) =>
        (vout.contains <=>
            /\ MavenVersion_compare(MavenVersion(va), MavenVersion(vc)) <= 0
            /\ MavenVersion_compare(MavenVersion(vc), MavenVersion(vb)) < 0)

\* C3: compare is a total order: sign(compare(a,b)) = -sign(compare(b,a)), and
\* a < b with b < c implies a < c.
C3_CompareIsTotalOrder ==
    vpc = "compared" =>
        /\ Sign(vout.ab) = -Sign(vout.ba)
        /\ (vout.ab < 0 /\ vout.bc < 0) => vout.ac < 0

\* C4: two identifiers are == exactly when their raw strings are equal.
C4_EqualIffSameRawString ==
    vpc = "compared" => (vout.eq <=> va = vb)

-----------------------------------------------------------------------------
(* VersionRange.intersect applied to interval lists                        *)

\* the longest interval list an operand is built with
MaxIntervals == 2

\* the intervals the operands are built from (VersionRange(intervals) takes
\* any list of (min, min_inc, max, max_inc)): lower bounds only, as parse
\* builds them, and intervals with an upper bound, with a bound missing, with
\* one version only, and with bounds that are equal in order but not in text
IntervalChoices ==
    { Interval(MavenVersion(<<"2">>), TRUE, NoneVersion, FALSE),            \* [2,)
      Interval(MavenVersion(<<"1", "0">>), TRUE, NoneVersion, FALSE),       \* [10,)
      Interval(MavenVersion(<<"1", "x">>), TRUE, NoneVersion, FALSE),       \* [1x,)
      Interval(MavenVersion(<<"1", ".", "0">>), TRUE,
               MavenVersion(<<"1", ".", "5">>), FALSE),                     \* [1.0,1.5)
      Interval(MavenVersion(<<"1", ".", "0", ".", "0">>), FALSE,
               MavenVersion(<<"2">>), TRUE),                                \* (1.0.0,2]
      Interval(NoneVersion, FALSE, MavenVersion(<<"2">>), FALSE),           \* (,2)
      Interval(MavenVersion(<<"1", ".", "5">>), TRUE,
               MavenVersion(<<"1", ".", "5">>), TRUE) }                     \* [1.5,1.5]

\* the interval lists of the operands: up to MaxIntervals intervals
RangeChoices ==
    UNION { [1..n -> IntervalChoices] : n \in 0..MaxIntervals }

\* the interval lists of the third operand: at most one interval
ShortRangeChoices == { r \in RangeChoices : Len(r) <= 1 }

\* the versions the ranges are asked about
ProbeVersions ==
    { MavenVersion(<<"1", ".", "0">>), MavenVersion(<<"1", ".", "0", ".", "0">>),
      MavenVersion(<<"1", ".", "5">>), MavenVersion(<<"2">>),
      MavenVersion(<<"1", "0">>), MavenVersion(<<"1", "x">>),
      MavenVersion(<<"1", ".", "0", "-", "a", "l", "p", "h", "a">>),
      MavenVersion(<<"3", ".", "5", ".", "0">>) }

InitIntersect ==
    /\ va \in RangeChoices /\ vb \in RangeChoices /\ vc \in ShortRangeChoices
    /\ vpc = "ranges" /\ vout = <<>>
    /\ IdleChecker /\ IdleSearcher

\* the four results kept of one evaluation
Intersections(ab, bc, a, b, c) ==
    [ab |-> ab,
     ba |-> VersionRange_intersect(b, a),
     ab_c |-> VersionRange_intersect(ab, c),
     a_bc |-> VersionRange_intersect(a, bc)]

\* a.intersect(b), b.intersect(a), a.intersect(b).intersect(c) and
\* a.intersect(b.intersect(c)) for a = VersionRange(va), ...
Intersect ==
    /\ vpc = "ranges"
    /\ vout' = Intersections(VersionRange_intersect(va, vb),
                             VersionRange_intersect(vb, vc), va, vb, vc)
    /\ vpc' = "intersected"
    /\ UNCHANGED <<va, vb, vc, cvars, svars>>

NextIntersect == Intersect

SpecIntersect == InitIntersect /\ [][NextIntersect]_vars

-----------------------------------------------------------------------------
(* VersionRange.parse and qualifier suffixes applied to written forms      *)

\* version strings int() rejects although str.isdigit() accepts them
BadVersionStrings ==
    { <<"1", ".", "^2">>,    \* 1.(U+00B2)
      <<"^2">> }             \* (U+00B2)

\* the ways a range string is written around two version strings
RangeShapes ==
    { "plain", "padded", "closed_open", "open_closed", "two_groups",
      "unclosed", "unopened", "unbracketed", "comma" }

\* the range string of one shape
RangeString(shape, a, b) ==
    CASE shape = "plain" -> a                                             \* a
      [] shape = "padded" -> <<" ">> \o a \o <<" ">>                       \* " a "
      [] shape = "closed_open" -> BracketRange(a, b)                      \* [a,b)
      [] shape = "open_closed" -> <<"(">> \o a \o <<",">> \o b \o <<"]">>  \* (a,b]
      [] shape = "two_groups" ->
            <<"[">> \o a \o <<"]", ",", " ", "(">> \o b \o <<",", ")">>    \* [a], (b,)
      [] shape = "unclosed" -> <<"[">> \o a                                \* [a
      [] shape = "unopened" -> a \o <<")">>                                \* a)
      [] shape = "unbracketed" -> a \o <<",">> \o b                        \* a,b
      [] shape = "comma" -> <<",">>                                        \* ,

\* the qualifier vocabulary as it may be written
QualifierSpellings ==
    { <<"a", "l", "p", "h", "a">>, <<"a">>, <<"b", "e", "t", "a">>, <<"b">>,
      <<"m", "i", "l", "e", "s", "t", "o", "n", "e">>, <<"m">>,
      <<"r", "c">>, <<"c", "r">>, <<"s", "n", "a", "p", "s", "h", "o", "t">>,
      <<"f", "i", "n", "a", "l">>, <<"g", "a">>,
      <<"F", "I", "N", "A", "L">>, <<"G", "a">>, <<"R", "C">>,
      <<"S", "N", "A", "P", "S", "H", "O", "T">> }

InitForms ==
    /\ va \in VersionStrings \cup BadVersionStrings
    /\ vb \in VersionStrings
    /\ vc = <<>>
    /\ vpc = "forms" /\ vout = <<>>
    /\ IdleChecker /\ IdleSearcher

\* the outcome of VersionRange.parse(range_str): it raises, or it returns
Parsed(range_str, raises) ==
    [range_str |-> range_str,
     raised |-> raises,
     returned |-> IF raises THEN <<>> ELSE <<VersionRange_parse(range_str)>>]

\* VersionRange.parse(range_str) for a range string written around va and vb
Parse ==
    /\ vpc = "forms"
    /\ \E shape \in RangeShapes :
           vout' = Parsed(RangeString(shape, va, vb),
                          VersionRange_parse_raises(RangeString(shape, va, vb)))
    /\ vpc' = "parsed"
    /\ UNCHANGED <<va, vb, vc, cvars, svars>>

\* MavenVersion(qualified)._compare(MavenVersion(base)), and
\* MavenVersion(base) < MavenVersion(other)
Qualified(base, qualified, other) ==
    [base |-> base,
     qualified |-> qualified,
     compare |-> MavenVersion_compare(MavenVersion(qualified), MavenVersion(base)),
     less |-> MavenVersion_lt(MavenVersion(qualified), MavenVersion(base)),
     base_less |-> MavenVersion_lt(MavenVersion(base), MavenVersion(other))]

\* vb with a qualifier segment appended, compared with vb; vb compared with va
CompareQualified ==
    /\ vpc = "forms"
    /\ ~MavenVersion_raises(va)
    /\ \E sep \in {"-", "."}, qualifier \in QualifierSpellings :
           vout' = Qualified(vb, vb \o <<sep>> \o qualifier, va)
    /\ vpc' = "qualified"
    /\ UNCHANGED <<va, vb, vc, cvars, svars>>

NextForms == Parse \/ CompareQualified

SpecForms == InitForms /\ [][NextForms]_vars

C18_QualifierSuffixIsLess ==
    vpc = "qualified" =>
        /\ vout.compare < 0
        /\ vout.less
        /\ (vb = <<"1", ".", "2", ".", "3">> /\ va = <<"1", ".", "2", ".", "4">>)
               => vout.base_less

\* "1.0-final" was compared with "1.0" and found less
C18_FinalBelowBare ==
    /\ vpc = "qualified"
    /\ vout.base = <<"1", ".", "0">>
    /\ vout.qualified = <<"1", ".", "0", "-", "f", "i", "n", "a", "l">>
    /\ vout.less

\* C15: intersect is sound and complete: for operands with at least one
\* interval each, a result with intervals contains v exactly when both
\* operands contain v, and a result with no interval means that no version is
\* contained in both operands.
C15_IntersectSoundAndComplete ==
    (vpc = "intersected" /\ Len(va) >= 1 /\ Len(vb) >= 1) =>
        \A v \in ProbeVersions :
            IF Len(vout.ab) >= 1
            THEN VersionRange_contains(vout.ab, v) <=>
                     (VersionRange_contains(va, v) /\ VersionRange_contains(vb, v))
            ELSE ~(VersionRange_contains(va, v) /\ VersionRange_contains(vb, v))

\* two interval lists have the same emptiness and contain the same versions
SameRange(r1, r2) ==
    /\ VersionRange_is_empty(r1) <=> VersionRange_is_empty(r2)
    /\ \A v \in ProbeVersions :
           VersionRange_contains(r1, v) <=> VersionRange_contains(r2, v)

\* C16: intersect is commutative and associative up to containment: a & b and
\* b & a, and (a & b) & c and a & (b & c), have the same emptiness and contain
\* the same versions.
C16_IntersectCommutativeAssociative ==
    vpc = "intersected" =>
        /\ SameRange(vout.ab, vout.ba)
        /\ SameRange(vout.ab_c, vout.a_bc)

-----------------------------------------------------------------------------
(* DependencyChecker                                                       *)

\* Dependency(mod_id, version_range, mandatory, is_special)
Dependency(mod_id, version_range, mandatory, is_special) ==
    [mod_id |-> mod_id, version_range |-> version_range,
     mandatory |-> mandatory, is_special |-> is_special]

\* ModInfo(mod_id, name, version, dependencies, provides)
ModInfo(mod_id, name, version, dependencies, provides) ==
    [mod_id |-> mod_id, name |-> name, version |-> version,
     dependencies |-> dependencies, provides |-> provides]

\* a dict assignment that keeps the value a key already has
DictSetDefault(d, k, v) ==
    [x \in DOMAIN d \cup {k} |-> IF x \in DOMAIN d THEN d[x] ELSE v]

\* d[k] = v on a dict
DictSet(d, k, v) == [x \in DOMAIN d \cup {k} |-> IF x = k THEN v ELSE d[x]]

RECURSIVE SetAll(_, _, _)
\* d[k] = v for every k of the list ks, in order
SetAll(d, ks, v) ==
    IF Len(ks) = 0 THEN d ELSE SetAll(DictSet(d, Head(ks), v), Tail(ks), v)

RECURSIVE BuildModMapFrom(_, _, _)
BuildModMapFrom(ms, i, d) ==
    IF i > Len(ms) THEN d
    ELSE BuildModMapFrom(ms, i + 1,
            SetAll(DictSet(d, ms[i].mod_id, i), ms[i].provides, i))

\* DependencyChecker._build_mod_map: mod_id -> the position in mods of the
\* ModInfo object the dict holds
build_mod_map(ms) == BuildModMapFrom(ms, 1, <<>>)

\* the (mod, dep) pairs of "for mod in self.mods: for dep in mod.dependencies",
\* in iteration order
RECURSIVE DepPairsFrom(_, _, _)
DepPairsFrom(ms, i, j) ==
    IF i > Len(ms) THEN <<>>
    ELSE IF j > Len(ms[i].dependencies) THEN DepPairsFrom(ms, i + 1, 1)
    ELSE <<[mod |-> i, dep |-> ms[i].dependencies[j]]>> \o DepPairsFrom(ms, i, j + 1)

DepPairs(ms) == DepPairsFrom(ms, 1, 1)

RECURSIVE CollectSpecialFrom(_, _, _)
CollectSpecialFrom(ms, pairs, d) ==
    IF Len(pairs) = 0 THEN d
    ELSE LET mod == ms[Head(pairs).mod]
             dep == Head(pairs).dep
             old == IF dep.mod_id \in DOMAIN d THEN d[dep.mod_id] ELSE <<>>
         IN  IF dep.is_special /\ dep.mandatory
             THEN CollectSpecialFrom(ms, Tail(pairs),
                     DictSet(d, dep.mod_id,
                             Append(old, [name |-> mod.name,
                                          version_range |-> dep.version_range])))
             ELSE CollectSpecialFrom(ms, Tail(pairs), d)

\* DependencyChecker._collect_special_requirements
collect_special_requirements(ms) == CollectSpecialFrom(ms, DepPairs(ms), <<>>)

\* one line of issues: kind is "NOT FOUND", "found" (the check-mark line),
\* "INCOMPATIBLE" or "cannot verify"; the other fields are what the line prints
Issue(kind, mod, dep, found) ==
    [kind |-> kind, mod_id |-> mod.mod_id, name |-> mod.name,
     dep_id |-> dep.mod_id, version_range |-> dep.version_range, found |-> found]

\* what check_dependencies has computed so far: the flag and the lines
Checked(satisfied, found) == [all_satisfied |-> satisfied, issues |-> found]

\* a loop body in which a line that cannot be verified clears the flag too
CheckOneStrict(ms, map, mod, dep, acc) ==
    IF dep.is_special \/ ~dep.mandatory THEN acc
    ELSE IF dep.mod_id \notin DOMAIN map
    THEN Checked(FALSE, Append(acc.issues, Issue("NOT FOUND", mod, dep, NoneStr)))
    ELSE LET dep_mod == ms[map[dep.mod_id]] IN
         IF VersionRange_parse_raises(dep.version_range)
            \/ MavenVersion_raises(dep_mod.version)
         THEN Checked(FALSE,
                      Append(acc.issues, Issue("cannot verify", mod, dep, dep_mod.version)))
         ELSE IF VersionRange_contains(VersionRange_parse(dep.version_range),
                                       MavenVersion(dep_mod.version))
         THEN Checked(acc.all_satisfied,
                      Append(acc.issues, Issue("found", mod, dep, dep_mod.version)))
         ELSE Checked(FALSE,
                      Append(acc.issues, Issue("INCOMPATIBLE", mod, dep, dep_mod.version)))

\* the body of the inner loop of check_dependencies for one dependency:
\* all_satisfied and issues after it, acc holding them before it
CheckOne(ms, map, mod, dep, acc) ==
    IF dep.is_special \/ ~dep.mandatory THEN acc
    ELSE IF dep.mod_id \notin DOMAIN map
    THEN Checked(FALSE, Append(acc.issues, Issue("NOT FOUND", mod, dep, NoneStr)))
    ELSE LET dep_mod == ms[map[dep.mod_id]] IN
         IF VersionRange_parse_raises(dep.version_range)
            \/ MavenVersion_raises(dep_mod.version)
         THEN Checked(acc.all_satisfied,
                      Append(acc.issues, Issue("cannot verify", mod, dep, dep_mod.version)))
         ELSE IF VersionRange_contains(VersionRange_parse(dep.version_range),
                                       MavenVersion(dep_mod.version))
         THEN Checked(acc.all_satisfied,
                      Append(acc.issues, Issue("found", mod, dep, dep_mod.version)))
         ELSE Checked(FALSE,
                      Append(acc.issues, Issue("INCOMPATIBLE", mod, dep, dep_mod.version)))

RECURSIVE CheckAll(_, _, _, _)
CheckAll(ms, map, pairs, acc) ==
    IF Len(pairs) = 0 THEN acc
    ELSE CheckAll(ms, map, Tail(pairs),
                  CheckOne(ms, map, ms[Head(pairs).mod], Head(pairs).dep, acc))

\* DependencyChecker.check_dependencies: <<all_satisfied, issues>>
check_dependencies(ms, map) ==
    LET done == CheckAll(ms, map, DepPairs(ms), Checked(TRUE, <<>>))
    IN  <<done.all_satisfied, done.issues>>

\* ---- DependencyChecker.get_special_requirements_summary ----
\* sorted(keys) for the mod ids of the model, listed in code-point order
SortedIds(ids) ==
    SelectSeq(<<"a", "b", "c", "forge", "minecraft">>, LAMBDA id : id \in ids)

RECURSIVE SortedStrings(_)
\* sorted(keys) for a set of distinct strings
SortedStrings(strs) ==
    IF strs = {} THEN <<>>
    ELSE LET least == CHOOSE x \in strs : \A y \in strs \ {x} : StrLt(x, y)
         IN  <<least>> \o SortedStrings(strs \ {least})

\* combined_range: None, or a VersionRange
CombinedRange(none, intervals) == [none |-> none, intervals |-> intervals]

RECURSIVE CombineFrom(_, _, _)
\* the loop that intersects the parsed ranges of the requirements
CombineFrom(requirements, i, combined) ==
    IF i > Len(requirements) THEN combined
    ELSE LET version_range == VersionRange_parse(requirements[i].version_range)
         IN  CombineFrom(requirements, i + 1,
                IF combined.none THEN CombinedRange(FALSE, version_range)
                ELSE CombinedRange(FALSE,
                        VersionRange_intersect(combined.intervals, version_range)))

\* version_groups[version_range]: the mod names, in the order of requirements
GroupNames(requirements, version_range) ==
    LET members == SelectSeq(requirements, LAMBDA req : req.version_range = version_range)
    IN  [i \in 1..Len(members) |-> members[i].name]

\* the line "    {version_range} - {mods_str}": up to three names, and how
\* many more
GroupLine(id, version_range, mod_names) ==
    [id |-> id, line |-> "group", version_range |-> version_range,
     names |-> SubSeq(mod_names, 1, IF Len(mod_names) <= 3 THEN Len(mod_names) ELSE 3),
     more |-> IF Len(mod_names) <= 3 THEN 0 ELSE Len(mod_names) - 3]

\* the lines of one special mod id when nothing raises; id tells the section
\* a line belongs to (the lines after the header "{ID}:")
SummaryLines(id, requirements, combined, keys) ==
    <<[id |-> id, line |-> "header"]>>
    \o << IF ~combined.none /\ ~VersionRange_is_empty(combined.intervals)
          THEN [id |-> id, line |-> "required", range |-> combined.intervals]
          ELSE [id |-> id, line |-> "no compatible"] >>
    \o <<[id |-> id, line |-> "individual"]>>
    \o [k \in 1..Len(keys) |-> GroupLine(id, keys[k], GroupNames(requirements, keys[k]))]
    \o ( IF ~combined.none /\ VersionRange_is_empty(combined.intervals)
         THEN <<[id |-> id, line |-> "conflict"]>>
         ELSE IF Len(keys) > 1 THEN <<[id |-> id, line |-> "multiple"]>>
         ELSE <<>> )

\* the lines of one special mod id when VersionRange.parse raises
ErrorLines(id, requirements) ==
    <<[id |-> id, line |-> "header"], [id |-> id, line |-> "error"]>>
    \o [i \in 1..Len(requirements) |->
          [id |-> id, line |-> "listing",
           version_range |-> requirements[i].version_range,
           name |-> requirements[i].name]]

SummaryFor(id, requirements) ==
    IF \E i \in 1..Len(requirements) :
          VersionRange_parse_raises(requirements[i].version_range)
    THEN ErrorLines(id, requirements)
    ELSE SummaryLines(id, requirements,
                      CombineFrom(requirements, 1, CombinedRange(TRUE, <<>>)),
                      SortedStrings({requirements[i].version_range :
                                        i \in 1..Len(requirements)}))

RECURSIVE SummaryFrom(_, _)
SummaryFrom(sr, ids) ==
    IF Len(ids) = 0 THEN <<>>
    ELSE SummaryFor(Head(ids), sr[Head(ids)]) \o SummaryFrom(sr, Tail(ids))

\* DependencyChecker.get_special_requirements_summary
get_special_requirements_summary(sr) == SummaryFrom(sr, SortedIds(DOMAIN sr))

\* ---- the local mod sets the checker is run on ----
MaxMods == 3

R_2_3 == <<"[", "2", ".", "0", ",", "3", ".", "0", ")">>      \* "[2.0,3.0)"
R_star == <<"*">>                    \* "*", the default of Dependency
R_soft == <<"2", ".", "0">>           \* "2.0"
R_40_45 == <<"[", "4", "0", ",", "4", "5", ")">>    \* "[40,45)"
R_46_50 == <<"[", "4", "6", ",", "5", "0", ")">>    \* "[46,50)"
R_bad == <<"[", "1", ".", "^2", ",", ")">>           \* "[1.(U+00B2),)"
V_1_0 == <<"1", ".", "0">>
V_2_5_0 == <<"2", ".", "5", ".", "0">>
V_3_5_0 == <<"3", ".", "5", ".", "0">>
V_placeholder == <<"$", "{", "v", "e", "r", "s", "i", "o", "n", "}">>

\* the dependency lists a mod may declare
DependencyLists ==
    { <<>>,
      <<Dependency("b", R_2_3, TRUE, FALSE)>>,
      <<Dependency("b", R_star, TRUE, FALSE)>>,
      <<Dependency("b", R_soft, TRUE, FALSE)>>,
      <<Dependency("b", R_bad, TRUE, FALSE)>>,
      <<Dependency("b", R_2_3, FALSE, FALSE)>>,
      <<Dependency("forge", R_40_45, TRUE, TRUE), Dependency("b", R_2_3, TRUE, FALSE)>>,
      <<Dependency("forge", R_46_50, TRUE, TRUE)>> }

ModChoices ==
    { ModInfo("a", "A", V_1_0, deps, <<>>) : deps \in DependencyLists }
    \cup { ModInfo("b", "B", v, <<>>, <<>>) :
              v \in {V_1_0, V_2_5_0, V_3_5_0, V_placeholder} }
    \cup { ModInfo("c", "C", V_2_5_0, <<>>, <<"b">>),
           ModInfo("c", "C", V_3_5_0,
                   <<Dependency("minecraft", R_soft, TRUE, TRUE),
                     Dependency("forge", R_46_50, TRUE, TRUE)>>, <<"b">>) }

ModLists == UNION { [1..n -> ModChoices] : n \in 0..MaxMods }

InitChecker ==
    /\ mods \in ModLists
    /\ mod_map = <<>> /\ special_requirements = <<>>
    /\ issues = <<>> /\ all_satisfied = TRUE /\ summary = <<>> /\ cpc = "new"
    /\ IdleVersion /\ IdleSearcher

\* DependencyChecker.__init__
NewChecker ==
    /\ cpc = "new"
    /\ mod_map' = build_mod_map(mods)
    /\ special_requirements' = collect_special_requirements(mods)
    /\ cpc' = "built"
    /\ UNCHANGED <<mods, issues, all_satisfied, summary, vvars, svars>>

\* a call of check_dependencies
CheckDependencies ==
    /\ cpc = "built"
    /\ all_satisfied' = check_dependencies(mods, mod_map)[1]
    /\ issues' = check_dependencies(mods, mod_map)[2]
    /\ cpc' = "checked"
    /\ UNCHANGED <<mods, mod_map, special_requirements, summary, vvars, svars>>

\* a call of get_special_requirements_summary
GetSpecialRequirementsSummary ==
    /\ cpc = "built"
    /\ summary' = get_special_requirements_summary(special_requirements)
    /\ cpc' = "summarised"
    /\ UNCHANGED <<mods, mod_map, special_requirements, issues, all_satisfied,
                   vvars, svars>>

NextChecker == NewChecker \/ CheckDependencies \/ GetSpecialRequirementsSummary

SpecChecker == InitChecker /\ [][NextChecker]_vars

-----------------------------------------------------------------------------
(* Claims about the checker (under SpecChecker)                            *)

\* the reading of a range string r = "[lo,hi)": its two bounds
BracketBounds(r) == Split(SubSeq(r, 2, Len(r) - 1), {","})

IsBracket(r) ==
    /\ Len(r) >= 2 /\ r[1] = "[" /\ r[Len(r)] = ")"
    /\ Len(BracketBounds(r)) = 2
    /\ BracketBounds(r)[1] # <<>> /\ BracketBounds(r)[2] # <<>>

\* v is inside r = "[lo,hi)" as the range notation reads: lo <= v < hi
InsideBracket(r, v) ==
    /\ MavenVersion_compare(MavenVersion(BracketBounds(r)[1]), MavenVersion(v)) <= 0
    /\ MavenVersion_compare(MavenVersion(v), MavenVersion(BracketBounds(r)[2])) < 0

\* C2: each mandatory non-virtual dependency on B with range R = "[lo,hi)" is
\* reported NOT FOUND when B is absent from the lookup, found (PASS) when B's
\* version is inside R, and INCOMPATIBLE with an overall result of false when
\* B's version is outside R.
C2_ClassifiesByRange ==
    cpc = "checked" =>
        \A i \in 1..Len(issues) :
            LET f == issues[i] IN
            /\ (f.dep_id \notin DOMAIN mod_map) <=> (f.kind = "NOT FOUND")
            /\ (f.dep_id \in DOMAIN mod_map /\ IsBracket(f.version_range)) =>
                  LET v == mods[mod_map[f.dep_id]].version IN
                  IF InsideBracket(f.version_range, v)
                  THEN f.kind = "found"
                  ELSE f.kind = "INCOMPATIBLE" /\ ~all_satisfied

\* the dependencies check_dependencies does not skip, in loop order
CheckedPairs ==
    SelectSeq(DepPairs(mods), LAMBDA pair : pair.dep.mandatory /\ ~pair.dep.is_special)

\* C13: the overall result of check_dependencies is true exactly when no
\* finding is NOT FOUND and none is INCOMPATIBLE (a finding that cannot be
\* verified does not count), and the findings are one per mandatory
\* non-virtual dependency, in loop order: virtual and optional dependencies
\* produce none.
C13_SatisfiedIffNoMissingNoIncompatible ==
    cpc = "checked" =>
        /\ all_satisfied <=>
              \A i \in 1..Len(issues) : issues[i].kind \notin {"NOT FOUND", "INCOMPATIBLE"}
        /\ Len(issues) = Len(CheckedPairs)
        /\ \A i \in 1..Len(issues) :
              /\ issues[i].mod_id = mods[CheckedPairs[i].mod].mod_id
              /\ issues[i].dep_id = CheckedPairs[i].dep.mod_id
              /\ issues[i].version_range = CheckedPairs[i].dep.version_range

C13_UnverifiableReportedAndSatisfied ==
    /\ cpc = "checked"
    /\ all_satisfied
    /\ \E i \in 1..Len(issues) : issues[i].kind = "cannot verify"
    /\ Len(issues) < Len(DepPairs(mods))

\* the record at position i declares id: as its mod_id or among its provides
Declares(i, id) ==
    \/ mods[i].mod_id = id
    \/ \E k \in 1..Len(mods[i].provides) : mods[i].provides[k] = id

\* the ids the input records declare
DeclaredIds == {id \in {"a", "b", "c", "forge", "minecraft"} :
                   \E i \in 1..Len(mods) : Declares(i, id)}

\* the position of the last record in input order that declares id
LastDeclaring(id) ==
    CHOOSE i \in 1..Len(mods) :
        Declares(i, id) /\ \A j \in (i + 1)..Len(mods) : ~Declares(j, id)

\* C21: the lookup is last-writer-wins: its keys are the declared ids, each
\* maps to the last record in input order that declares it (as primary id or
\* as alias), every key maps to a record that declares it, and a dependency
\* on a key is checked against the version of that last record.
C21_LastWriterWins ==
    cpc \in {"built", "checked", "summarised"} =>
        /\ DOMAIN mod_map = DeclaredIds
        /\ \A id \in DOMAIN mod_map :
              /\ mod_map[id] = LastDeclaring(id)
              /\ Declares(mod_map[id], id)
        /\ cpc = "checked" =>
              \A i \in 1..Len(issues) :
                  IF issues[i].dep_id \in DeclaredIds
                  THEN /\ issues[i].kind # "NOT FOUND"
                       /\ issues[i].found = mods[LastDeclaring(issues[i].dep_id)].version
                  ELSE issues[i].kind = "NOT FOUND"

\* a later record's alias replaced an earlier record's primary id, and a
\* dependency on that id was checked against the later record's version
C21_AliasReplacedPrimary ==
    /\ cpc = "checked"
    /\ \E i, j \in 1..Len(mods) :
          /\ i < j
          /\ mods[i].mod_id = "b"
          /\ mods[j].mod_id # "b" /\ Declares(j, "b")
          /\ mods[i].version # mods[j].version
          /\ mod_map["b"] = j
          /\ \E k \in 1..Len(issues) :
                issues[k].dep_id = "b" /\ issues[k].found = mods[j].version

\* C20: a mandatory non-virtual dependency with the range "*" is reported
\* with the check mark whenever its target is in mod_map, whatever version
\* string the target carries ("${version}" too).
C20_StarAlwaysPasses ==
    cpc = "checked" =>
        \A i \in 1..Len(issues) :
            (issues[i].version_range = R_star /\ issues[i].dep_id \in DOMAIN mod_map)
                => issues[i].kind = "found"

\* no version is inside both r1 = "[lo1,hi1)" and r2 = "[lo2,hi2)" as the
\* range notation reads: hi1 <= lo2
DisjointBrackets(r1, r2) ==
    /\ IsBracket(r1) /\ IsBracket(r2)
    /\ MavenVersion_compare(MavenVersion(BracketBounds(r1)[2]),
                            MavenVersion(BracketBounds(r2)[1])) <= 0

\* C14: when two mandatory ranges collected for a virtual target admit no
\* common version ("[40,45)" and "[46,50)"), the summary of that target
\* reports no compatible version and a conflict line, and lists every
\* collected range string as an individual requirement group.
C14_ConflictReported ==
    cpc = "summarised" =>
        \A id \in DOMAIN special_requirements :
            LET requirements == special_requirements[id]
            IN  (\E i, j \in 1..Len(requirements) :
                    DisjointBrackets(requirements[i].version_range,
                                     requirements[j].version_range))
                => /\ \E k \in 1..Len(summary) : summary[k] = [id |-> id, line |-> "conflict"]
                   /\ \E k \in 1..Len(summary) :
                         summary[k] = [id |-> id, line |-> "no compatible"]
                   /\ \A i \in 1..Len(requirements) : \E k \in 1..Len(summary) :
                         /\ summary[k].id = id /\ summary[k].line = "group"
                         /\ summary[k].version_range = requirements[i].version_range

-----------------------------------------------------------------------------
(* Python list primitives                                                  *)

Range(seq) == {seq[i] : i \in 1..Len(seq)}

Reverse(seq) == [i \in 1..Len(seq) |-> seq[Len(seq) + 1 - i]]

Count(seq, x) == Cardinality({i \in 1..Len(seq) : seq[i] = x})

\* a removal that drops every occurrence of x
RemoveAll(seq, x) == SelectSeq(seq, LAMBDA y : y # x)

\* list.remove(x) on a list that holds x: the first occurrence goes
RemoveFirst(seq, x) ==
    LET k == CHOOSE i \in 1..Len(seq) :
                 seq[i] = x /\ \A j \in 1..(i - 1) : seq[j] # x
    IN  SubSeq(seq, 1, k - 1) \o SubSeq(seq, k + 1, Len(seq))

InsertAt(seq, k, x) == SubSeq(seq, 1, k - 1) \o <<x>> \o SubSeq(seq, k, Len(seq))

\* ---- sorted(xs, key = MavenVersion(...), reverse = True) ----
\* CPython's list.sort on a list shorter than 64: reverse the list, find the
\* leading run (reversing it when strictly descending), insert the rest by
\* binary insertion, reverse the result. Only __lt__ of the keys is used.
KeyLt(x, y) == MavenVersion_lt(x.key, y.key)

RECURSIVE RunEnd(_, _, _)
\* the last index of the run that starts at 1 and has reached index i
RunEnd(a, i, descending) ==
    IF i = Len(a) THEN i
    ELSE IF descending = KeyLt(a[i + 1], a[i]) THEN RunEnd(a, i + 1, descending)
    ELSE i

RECURSIVE BinarySearch(_, _, _, _)
\* where binarysort puts pivot among a[l..r-1]
BinarySearch(a, pivot, l, r) ==
    IF l >= r THEN l
    ELSE LET p == l + ((r - l) \div 2)
         IN  IF KeyLt(pivot, a[p]) THEN BinarySearch(a, pivot, l, p)
             ELSE BinarySearch(a, pivot, p + 1, r)

RECURSIVE BinarySort(_, _)
\* a[1..start-1] is sorted; insert a[start..]
BinarySort(a, start) ==
    IF start > Len(a) THEN a
    ELSE LET pivot == a[start]
             k == BinarySearch(a, pivot, 1, start)
             moved == InsertAt(SubSeq(a, 1, start - 1), k, pivot)
                        \o SubSeq(a, start + 1, Len(a))
         IN  BinarySort(moved, start + 1)

SortRun(a, descending, n) ==
    BinarySort((IF descending THEN Reverse(SubSeq(a, 1, n)) ELSE SubSeq(a, 1, n))
                  \o SubSeq(a, n + 1, Len(a)),
               n + 1)

SortFrom(a, descending) == SortRun(a, descending, RunEnd(a, 2, descending))

SortAscending(a) == IF Len(a) < 2 THEN a ELSE SortFrom(a, KeyLt(a[2], a[1]))

SortedReverse(a) == Reverse(SortAscending(Reverse(a)))

-----------------------------------------------------------------------------
(* The Modrinth registry as the client shows it                            *)

\* the platform the ModSearcher was constructed for
mc_version == "1.20.1"
mod_loader == "fabric"

T_alpha == <<"a", "l", "p", "h", "a">>
T_beta == <<"b", "e", "t", "a">>
T_release == <<"r", "e", "l", "e", "a", "s", "e">>

MrDependency(project_id, version_id, dependency_type) ==
    [project_id |-> project_id, version_id |-> version_id,
     dependency_type |-> dependency_type]

MrVersion(id, project_id, version_number, version_type, game_versions, loaders, deps) ==
    [id |-> id, project_id |-> project_id, version_number |-> version_number,
     version_type |-> version_type, game_versions |-> game_versions,
     loaders |-> loaders, dependencies |-> deps]

MrProject(id, slug, game_versions, loaders) ==
    [id |-> id, slug |-> slug, game_versions |-> game_versions, loaders |-> loaders]

\* mrcli.get_projects(ids): the projects whose id or slug is listed, once
\* each, in registry order
get_projects(r, ids) ==
    SelectSeq(r.projects, LAMBDA pro : pro.id \in ids \/ pro.slug \in ids)

\* mrcli.list_project_versions(project_id), in registry order
list_project_versions(r, project_id) ==
    SelectSeq(r.versions, LAMBDA ver : ver.project_id = project_id)

\* mrcli.get_versions(ids), in registry order
get_versions(r, ids) == SelectSeq(r.versions, LAMBDA ver : ver.id \in ids)

-----------------------------------------------------------------------------
(* ModSearcher.get_latest_versions and search_modrinth                     *)

\* filter_version_loader(x), x a project or a version
filter_version_loader(x) ==
    /\ ~(x.game_versions # {} /\ mc_version \notin x.game_versions)
    /\ ~(x.loaders # {} /\ mod_loader \notin x.loaders)

\* (ver.version_type or "alpha") >= releaseType, a comparison of str
TierAccepts(ver, rt) ==
    StrGe(IF ver.version_type = NoneStr THEN T_alpha ELSE ver.version_type, rt)

\* MavenVersion(v.version_number or "0.0.0")
SortKey(ver) ==
    MavenVersion(IF ver.version_number = NoneStr
                 THEN <<"0", ".", "0", ".", "0">> ELSE ver.version_number)

\* the versions of one project that pass both filters, in registry order
Kept(r, pro, rt) ==
    SelectSeq(list_project_versions(r, pro.id),
              LAMBDA ver : filter_version_loader(ver) /\ TierAccepts(ver, rt))

Keyed(kept) == [i \in 1..Len(kept) |-> [key |-> SortKey(kept[i]), ver |-> kept[i]]]

Unkeyed(sorted) == [i \in 1..Len(sorted) |-> sorted[i].ver]

\* the list "versions" of get_latest_versions for one project, sorted
Candidates(r, pro, rt) == Unkeyed(SortedReverse(Keyed(Kept(r, pro, rt))))

\* "if versions: result.append((pro, versions[0]))"
Selection(pro, cands) ==
    IF Len(cands) > 0 THEN <<[project |-> pro, version |-> cands[1]]>> ELSE <<>>

RECURSIVE LatestFrom(_, _, _)
LatestFrom(r, pros, rt) ==
    IF Len(pros) = 0 THEN <<>>
    ELSE Selection(Head(pros), Candidates(r, Head(pros), rt))
            \o LatestFrom(r, Tail(pros), rt)

\* ModSearcher.get_latest_versions(mods, releaseType)
get_latest_versions(r, projects, rt) ==
    LatestFrom(r, SelectSeq(projects, filter_version_loader), rt)

\* releaseType = (releaseType or "alpha").lower()
NormalType(rt) == IF rt = NoneStr \/ rt = <<>> THEN T_alpha ELSE Lower(rt)

RECURSIVE DirectFrom(_, _, _, _)
\* the first loop of search_modrinth over the (project, version) pairs: the
\* caller's list, the result, the seen projects, and whether slugs.remove
\* raised ValueError (project.slug is not in the list)
DirectFrom(pairs, sl, res, bm) ==
    IF Len(pairs) = 0 THEN [slugs |-> sl, result |-> res, bucket_mod |-> bm, raised |-> FALSE]
    ELSE LET project == Head(pairs).project
             version == Head(pairs).version
         IN  IF project.slug \notin Range(sl)
             THEN [slugs |-> sl, result |-> Append(res, version), bucket_mod |-> bm,
                   raised |-> TRUE]
             ELSE DirectFrom(Tail(pairs), RemoveFirst(sl, project.slug),
                             Append(res, version), bm \cup {project.id})

\* the required dependencies of the versions of a list, in order
RECURSIVE RequiredDeps(_)
RequiredDeps(vers) ==
    IF Len(vers) = 0 THEN <<>>
    ELSE SelectSeq(Head(vers).dependencies,
                   LAMBDA dep : dep.dependency_type = "required")
            \o RequiredDeps(Tail(vers))

\* a depmod that forgets the seen projects
DepModUnfiltered(vers, bm) ==
    {dep.project_id : dep \in {d \in Range(RequiredDeps(vers)) : d.project_id # None}}

\* "depmod": the project ids of the dependencies that are not seen projects
DepMod(vers, bm) ==
    {dep.project_id : dep \in {d \in Range(RequiredDeps(vers)) :
                                  d.project_id # None /\ d.project_id \notin bm}}

\* "depver" as first assigned: the version ids that are not seen versions
DepVer(vers, bv) ==
    {dep.version_id : dep \in {d \in Range(RequiredDeps(vers)) :
                                  d.version_id # None /\ d.version_id \notin bv}}

\* "depmodver"
DepModVer(r, depmod, rt) ==
    IF depmod # {} THEN get_latest_versions(r, get_projects(r, depmod), rt) ELSE <<>>

\* a depver that leaves out the versions selected for the unseen projects
DepVerOnly(depver, depmodver) == depver

\* "depver" after "depver |= set(version.id for _, version in depmodver)"
DepVerAll(depver, depmodver) ==
    depver \cup {depmodver[i].version.id : i \in 1..Len(depmodver)}

\* "versions = self.mrcli.get_versions(list(depver)) if depmod else []"
Fetched(r, depmod, depver) ==
    IF depmod # {} THEN get_versions(r, depver) ELSE <<>>

-----------------------------------------------------------------------------
(* The registries and requests search_modrinth is run on                   *)

MaxReq == 2

Required(project_id, version_id) == MrDependency(project_id, version_id, "required")
Optional(project_id, version_id) == MrDependency(project_id, version_id, "optional")

\* project PA (slug "a"): A1 = 1.0 release, A2 = 2.0 beta with dependencies
\* project PB (slug "b"): B1 = 1.0 release (requires PC), B2 varies
\* project PC (slug "c"): C0 = 0.9 for another game version, C1 untyped, unnumbered
\* A project's game_versions and loaders are those of all its versions.
DepsA2 ==
    { <<>>,
      <<Required("PB", None)>>,
      <<Required(None, "B1")>>,
      <<Required("PB", "B1")>>,
      <<Required(None, "B1"), Required("PC", None)>>,
      <<Optional("PB", None), Required("PX", None)>> }

DepsB2 == { <<>>, <<Required("PA", None)>>, <<Required("PC", None)>> }

DepsC1 == { <<>>, <<Required("PB", None)>>, <<Required("PA", "A1")>> }

\* B2 newer and compatible, newer for another game version, or order-equal to B1
VariantsB2 ==
    { [version_number |-> <<"2", ".", "0">>, game_versions |-> {mc_version}],
      [version_number |-> <<"2", ".", "0">>, game_versions |-> {"1.19"}],
      [version_number |-> <<"1", ".", "0", ".", "0">>, game_versions |-> {mc_version}] }

GameVersionsC1 == { {mc_version}, {"1.19"}, {} }

UnionOf(vers, project_id, field) ==
    UNION { IF field = "loaders" THEN v.loaders ELSE v.game_versions :
            v \in {w \in Range(vers) : w.project_id = project_id} }

MrRegistry(depsA2, depsB2, depsC1, b2, gvC1) ==
    LET vers ==
          << MrVersion("A1", "PA", <<"1", ".", "0">>, T_release, {mc_version}, {mod_loader}, <<>>),
             MrVersion("A2", "PA", <<"2", ".", "0">>, T_beta, {mc_version}, {mod_loader}, depsA2),
             MrVersion("B1", "PB", <<"1", ".", "0">>, T_release, {mc_version}, {},
                       <<Required("PC", None)>>),
             MrVersion("B2", "PB", b2.version_number, T_release, b2.game_versions,
                       {mod_loader}, depsB2),
             MrVersion("C0", "PC", <<"0", ".", "9">>, T_release, {"1.19"}, {mod_loader}, <<>>),
             MrVersion("C1", "PC", NoneStr, NoneStr, gvC1, {mod_loader}, depsC1) >>
        pro(id, slug) ==
            MrProject(id, slug, UnionOf(vers, id, "game_versions"), UnionOf(vers, id, "loaders"))
    IN  [kind |-> "modrinth",
         projects |-> <<pro("PA", "a"), pro("PB", "b"), pro("PC", "c")>>,
         versions |-> vers]

MrRegistries ==
    { MrRegistry(dA, dB, dC, b2, gC) :
        dA \in DepsA2, dB \in DepsB2, dC \in DepsC1, b2 \in VariantsB2, gC \in GameVersionsC1 }

\* what a caller may ask for: slugs, a project id, a name no registry knows
Identifiers == {"a", "b", "PA", "zz"}

RequestLists == UNION { [1..n -> Identifiers] : n \in 0..MaxReq }

ReleaseTypes == { NoneStr, T_beta, T_release }

InitModrinth ==
    /\ reg \in MrRegistries
    /\ releaseType \in ReleaseTypes
    /\ slugs0 \in RequestLists
    /\ slugs = slugs0
    /\ result = <<>> /\ versions = <<>> /\ bucket_mod = {} /\ bucket_ver = {}
    /\ looked = <<>>
    /\ spc = "mr_start"
    /\ IdleVersion /\ IdleChecker

Ids(vers) == {vers[i].id : i \in 1..Len(vers)}

\* the effect of the direct phase, d the outcome of its loop
MrDirectEffect(d) ==
    /\ slugs' = d.slugs
    /\ looked' = <<Range(slugs)>>
    /\ IF d.raised
       THEN /\ spc' = "raised"
            /\ UNCHANGED <<result, versions, bucket_mod, bucket_ver>>
       ELSE /\ spc' = "mr_loop"
            /\ result' = d.result
            /\ versions' = d.result
            /\ bucket_mod' = d.bucket_mod
            /\ bucket_ver' = Ids(d.result)

\* search_modrinth up to "versions = result": the direct phase
MrDirect ==
    /\ spc = "mr_start"
    /\ MrDirectEffect(
          DirectFrom(get_latest_versions(reg, get_projects(reg, Range(slugs)),
                                         NormalType(releaseType)),
                     slugs, <<>>, {}))
    /\ UNCHANGED <<reg, releaseType, slugs0, vvars, cvars>>

\* the locals of one pass of "while True", up to "if not depver"
PassLocals3(depmod, depmodver, depver) ==
    [depmod |-> depmod, depmodver |-> depmodver, depver |-> depver]

PassLocals2(depmod, depmodver) ==
    PassLocals3(depmod, depmodver, DepVerAll(DepVer(versions, bucket_ver), depmodver))

PassLocals1(depmod) ==
    PassLocals2(depmod, DepModVer(reg, depmod, NormalType(releaseType)))

PassLocals == PassLocals1(DepMod(versions, bucket_mod))

\* a pass that keeps only the projects it resolved itself as seen
PassHeadForgetful(l) ==
    /\ bucket_mod' = {l.depmodver[i].project.id : i \in 1..Len(l.depmodver)}
    /\ looked' = IF l.depmod # {} THEN Append(looked, l.depmod) ELSE looked

\* what a pass does before "if not depver"
PassHead(l) ==
    /\ bucket_mod' = bucket_mod \cup {l.depmodver[i].project.id : i \in 1..Len(l.depmodver)}
    /\ looked' = IF l.depmod # {} THEN Append(looked, l.depmod) ELSE looked

\* what a pass does after "if not depver"
PassTail(fetched) ==
    /\ versions' = fetched
    /\ bucket_ver' = bucket_ver \cup Ids(fetched)
    /\ result' = result \o fetched

PassContinues(l) ==
    /\ l.depver # {}
    /\ PassHead(l)
    /\ PassTail(Fetched(reg, l.depmod, l.depver))

PassBreaks(l) ==
    /\ l.depver = {}
    /\ PassHead(l)

\* one pass of "while True" that does not break
MrIterate ==
    /\ spc = "mr_loop"
    /\ PassContinues(PassLocals)
    /\ UNCHANGED <<reg, releaseType, slugs0, slugs, spc, vvars, cvars>>

\* the pass that breaks, and the return (marking the primary file touches
\* only version.files, which the model leaves out)
MrBreak ==
    /\ spc = "mr_loop"
    /\ PassBreaks(PassLocals)
    /\ spc' = "mr_done"
    /\ UNCHANGED <<reg, releaseType, slugs0, slugs, result, versions, bucket_ver,
                   vvars, cvars>>

-----------------------------------------------------------------------------
(* The CurseForge registry as the client shows it, and search_curseforge   *)

\* Python values of different types are never equal: a mod id (int) and a
\* slug (str) are kept apart by a type tag where the code compares them
PyInt(n) == <<"int", n>>
PyStr(x) == <<"str", x>>

MAX_PAGE_SIZE == 50

\* the length of the result list at which the model stops following the
\* closure loop of search_curseforge
MaxFiles == 4

CfDependency(modId, relationType) == [modId |-> modId, relationType |-> relationType]

CfFile(id, modId, rtype, isAvailable, deps) ==
    [id |-> id, modId |-> modId, releaseType |-> rtype, isAvailable |-> isAvailable,
     dependencies |-> deps]

\* files: what get_mod_files lists for the searcher's game version and loader
CfMod(id, slug, files) == [id |-> id, slug |-> slug, files |-> files]

NoneFile == [none |-> TRUE]

\* cfcli.search_mods(..., slug = slug).data
cf_search_mods(r, slug) == SelectSeq(r.mods, LAMBDA mod : mod.slug = slug)

\* cfcli.get_mods(ids)
cf_get_mods(r, ids) == SelectSeq(r.mods, LAMBDA mod : mod.id \in ids)

\* { "release": 1, "beta": 2, "alpha": 3 }.get(releaseType, 0)
ReleaseTypeId(rt) ==
    IF rt = T_release THEN 1 ELSE IF rt = T_beta THEN 2 ELSE IF rt = T_alpha THEN 3 ELSE 0

RECURSIVE LatestFileFrom(_, _, _)
\* the paging loop of get_latest_file, from offset index
LatestFileFrom(files, index, releaseTypeId) ==
    LET last == IF index + MAX_PAGE_SIZE < Len(files) THEN index + MAX_PAGE_SIZE
                ELSE Len(files)
        data == SubSeq(files, index + 1, last)
        availableFiles ==
            SelectSeq(data, LAMBDA file :
                /\ (IF file.releaseType = 0 THEN 3 ELSE file.releaseType) <= releaseTypeId
                /\ file.isAvailable)
    IN  IF Len(availableFiles) > 0 THEN availableFiles[1]
        ELSE IF index + Len(data) = Len(files) THEN NoneFile
        ELSE LatestFileFrom(files, index + Len(data), releaseTypeId)

\* ModSearcher.get_latest_file(mod, releaseTypeId)
get_latest_file(mod, releaseTypeId) == LatestFileFrom(mod.files, 0, releaseTypeId)

RECURSIVE ModFilesOfSlugs(_, _, _)
\* "modfiles" of the direct phase: one (slug, file) per requested slug that
\* has a first search hit with a latest file
ModFilesOfSlugs(r, sl, releaseTypeId) ==
    IF Len(sl) = 0 THEN <<>>
    ELSE LET modlist == cf_search_mods(r, Head(sl))
             file == IF Len(modlist) > 0 THEN get_latest_file(modlist[1], releaseTypeId)
                     ELSE NoneFile
         IN  (IF file # NoneFile THEN <<[slug |-> modlist[1].slug, file |-> file]>>
              ELSE <<>>) \o ModFilesOfSlugs(r, Tail(sl), releaseTypeId)

RECURSIVE ModFilesOfMods(_, _)
\* "modfiles" of the closure loop
ModFilesOfMods(ms, releaseTypeId) ==
    IF Len(ms) = 0 THEN <<>>
    ELSE LET file == get_latest_file(Head(ms), releaseTypeId)
         IN  (IF file # NoneFile THEN <<[slug |-> Head(ms).slug, file |-> file]>>
              ELSE <<>>) \o ModFilesOfMods(Tail(ms), releaseTypeId)

RECURSIVE RemoveEach(_, _)
\* slugs.remove(slug) for each pair of modfiles
RemoveEach(sl, modfiles) ==
    IF Len(modfiles) = 0 THEN sl
    ELSE RemoveEach(RemoveFirst(sl, Head(modfiles).slug), Tail(modfiles))

\* "depModIds": the required (relationType 3) mod ids that are not in bucket
DepModIds(files, bucket) ==
    UNION { {dep.modId : dep \in {d \in Range(files[i].dependencies) :
                                     d.relationType = 3 /\ PyInt(d.modId) \notin bucket}} :
            i \in 1..Len(files) }

\* mod 1 (slug "a"): an unavailable or available file 10 of no release type
\* (0 stands for None: "releaseType or 3" reads both as 3), then release
\* file 11 with dependencies; mod 2 (slug "b"): no file, or release file 21
CfDeps11 ==
    { <<>>, <<CfDependency(2, 3)>>, <<CfDependency(2, 2)>>, <<CfDependency(9, 3)>> }

CfDeps21 == { <<>>, <<CfDependency(1, 3)>> }

CfRegistry(avail10, deps11, files2) ==
    [kind |-> "curseforge", cfcli |-> TRUE,
     mods |-> << CfMod(1, "a", << CfFile(10, 1, 0, avail10, <<>>),
                                  CfFile(11, 1, 1, TRUE, deps11) >>),
                 CfMod(2, "b", files2) >>]

CfRegistries ==
    { CfRegistry(av, d11, f2) :
        av \in BOOLEAN, d11 \in CfDeps11,
        f2 \in {<<>>} \cup { <<CfFile(21, 2, 1, TRUE, d21)>> : d21 \in CfDeps21 } }
    \cup { [kind |-> "curseforge", cfcli |-> FALSE, mods |-> <<>>] }

CfIdentifiers == {"a", "b", "zz"}

CfRequestLists == UNION { [1..n -> CfIdentifiers] : n \in 0..MaxReq }

InitCurseforge ==
    /\ reg \in CfRegistries
    /\ releaseType \in ReleaseTypes
    /\ slugs0 \in CfRequestLists
    /\ slugs = slugs0
    /\ result = <<>> /\ versions = <<>> /\ bucket_mod = {} /\ bucket_ver = {}
    /\ looked = <<>>
    /\ spc = "cf_start"
    /\ IdleVersion /\ IdleChecker

\* "if not self.cfcli: return []"
CfNoClient ==
    /\ spc = "cf_start"
    /\ ~reg.cfcli
    /\ spc' = "cf_done"
    /\ UNCHANGED <<reg, releaseType, slugs0, slugs, result, versions, bucket_mod,
                   bucket_ver, looked, vvars, cvars>>

\* search_curseforge up to "result = files": the direct phase
CfDirect ==
    /\ spc = "cf_start"
    /\ reg.cfcli
    /\ LET modfiles == ModFilesOfSlugs(reg, slugs, ReleaseTypeId(NormalType(releaseType)))
       IN  /\ slugs' = RemoveEach(slugs, modfiles)
           /\ result' = [i \in 1..Len(modfiles) |-> modfiles[i].file]
           /\ bucket_mod' = {PyStr(modfiles[i].slug) : i \in 1..Len(modfiles)}
    /\ spc' = "cf_loop"
    /\ UNCHANGED <<reg, releaseType, slugs0, versions, bucket_ver, looked, vvars, cvars>>

\* one pass of "while True" that does not break; files and result are the
\* same list object
CfIterate ==
    /\ spc = "cf_loop"
    /\ Len(result) < MaxFiles
    /\ LET depModIds == DepModIds(result, bucket_mod)
           modfiles == ModFilesOfMods(cf_get_mods(reg, depModIds),
                                      ReleaseTypeId(NormalType(releaseType)))
       IN  /\ depModIds # {}
           /\ result' = result \o [i \in 1..Len(modfiles) |-> modfiles[i].file]
           /\ bucket_mod' = bucket_mod \cup {PyStr(modfiles[i].slug) : i \in 1..Len(modfiles)}
    /\ UNCHANGED <<reg, releaseType, slugs0, slugs, versions, bucket_ver, looked, spc,
                   vvars, cvars>>

\* the pass that breaks, and the return
CfBreak ==
    /\ spc = "cf_loop"
    /\ DepModIds(result, bucket_mod) = {}
    /\ spc' = "cf_done"
    /\ UNCHANGED <<reg, releaseType, slugs0, slugs, result, versions, bucket_mod,
                   bucket_ver, looked, vvars, cvars>>

NextSearch ==
    \/ MrDirect \/ MrIterate \/ MrBreak
    \/ CfNoClient \/ CfDirect \/ CfIterate \/ CfBreak

InitSearch == InitModrinth \/ InitCurseforge

SpecSearch == InitSearch /\ [][NextSearch]_vars

-----------------------------------------------------------------------------
(* ModSearcher.get_latest_versions applied to one project's version lists  *)

MaxVersions == 3

\* what a registry version may declare: version_number, version_type,
\* game_versions, loaders
LatestChoices ==
    LET ver(number, type, gv, ld) ==
            [version_number |-> number, version_type |-> type,
             game_versions |-> gv, loaders |-> ld]
    IN  { ver(<<"2">>, T_release, {mc_version}, {mod_loader}),
          ver(<<"1", "0">>, T_release, {mc_version}, {mod_loader}),
          ver(<<"1", "x">>, T_release, {mc_version}, {mod_loader}),
          ver(<<"1", ".", "0">>, T_release, {mc_version}, {mod_loader}),
          ver(<<"1", ".", "0", ".", "0">>, T_release, {mc_version}, {}),
          ver(NoneStr, NoneStr, {}, {mod_loader}),
          ver(<<"1", "0">>, T_beta, {mc_version}, {mod_loader}),
          ver(<<"1", "0">>, T_alpha, {mc_version}, {mod_loader}),
          ver(<<"1", "0">>, T_release, {"1.19"}, {mod_loader}),
          ver(<<"1", "0">>, T_release, {mc_version}, {"forge"}),
          ver(<<"2">>, T_beta, {}, {}) }

\* a registry with the one project PA (slug "a") whose versions V1, V2, ...
\* are the listed choices, in registry order
LatestRegistry(choices) ==
    LET vers == [i \in 1..Len(choices) |->
                    MrVersion(<<"V", i>>, "PA", choices[i].version_number,
                              choices[i].version_type, choices[i].game_versions,
                              choices[i].loaders, <<>>)]
    IN  [kind |-> "modrinth",
         projects |-> <<MrProject("PA", "a", UnionOf(vers, "PA", "game_versions"),
                                  UnionOf(vers, "PA", "loaders"))>>,
         versions |-> vers]

InitLatest ==
    /\ reg \in { LatestRegistry(choices) :
                    choices \in UNION { [1..n -> LatestChoices] : n \in 0..MaxVersions } }
    /\ releaseType \in ReleaseTypes
    /\ slugs0 = <<>> /\ slugs = <<>>
    /\ result = <<>> /\ versions = <<>> /\ bucket_mod = {} /\ bucket_ver = {}
    /\ looked = <<>>
    /\ spc = "lv_start"
    /\ IdleVersion /\ IdleChecker

\* a call get_latest_versions(projects, releaseType) with the registry's
\* projects; result holds the (project, version) pairs it returns
GetLatestVersions ==
    /\ spc = "lv_start"
    /\ result' = get_latest_versions(reg, reg.projects, NormalType(releaseType))
    /\ spc' = "lv_done"
    /\ UNCHANGED <<reg, releaseType, slugs0, slugs, versions, bucket_mod, bucket_ver,
                   looked, vvars, cvars>>

NextLatest == GetLatestVersions

SpecLatest == InitLatest /\ [][NextLatest]_vars

\* alpha < beta < release, a missing tier counting as alpha
TierRank(type) ==
    IF type = T_release THEN 3 ELSE IF type = T_beta THEN 2 ELSE 1

\* the positions in the registry of the versions of the project that the
\* platform and the requested tier admit
Admitted(project_id) ==
    { i \in 1..Len(reg.versions) :
        /\ reg.versions[i].project_id = project_id
        /\ (reg.versions[i].game_versions = {} \/ mc_version \in reg.versions[i].game_versions)
        /\ (reg.versions[i].loaders = {} \/ mod_loader \in reg.versions[i].loaders)
        /\ TierRank(reg.versions[i].version_type) >= TierRank(NormalType(releaseType)) }

\* the positions in the registry of the versions selected for the project
SelectedFor(project_id) ==
    { i \in 1..Len(reg.versions) :
        \E k \in 1..Len(result) :
            result[k].project.id = project_id /\ result[k].version = reg.versions[i] }

VersionOrder(i, j) ==
    MavenVersion_compare(SortKey(reg.versions[i]), SortKey(reg.versions[j]))

\* C11: for each candidate project (its record passes the platform filter),
\* get_latest_versions selects the maximum under MavenVersion order of the
\* versions the platform and the tier admit, the earliest in registry order
\* of the order-equal maxima; a project with no admitted version yields no
\* selection.
C11_SelectsMaximumAdmitted ==
    spc = "lv_done" =>
        \A pro \in {q \in Range(reg.projects) : filter_version_loader(q)} :
            /\ Cardinality({k \in 1..Len(result) : result[k].project.id = pro.id})
                  = (IF Admitted(pro.id) = {} THEN 0 ELSE 1)
            /\ \A i \in SelectedFor(pro.id) :
                  /\ i \in Admitted(pro.id)
                  /\ \A j \in Admitted(pro.id) :
                        /\ VersionOrder(j, i) <= 0
                        /\ VersionOrder(j, i) = 0 => i <= j

-----------------------------------------------------------------------------
(* Claims about search_modrinth and search_curseforge (SpecSearch)         *)

Returned == spc \in {"mr_done", "cf_done"}

\* the slugs the direct phase passes to slugs.remove, one per selection
SelectedSlugs ==
    IF reg.kind = "modrinth"
    THEN LET pairs == get_latest_versions(reg, get_projects(reg, Range(slugs0)),
                                          NormalType(releaseType))
         IN  [i \in 1..Len(pairs) |-> pairs[i].project.slug]
    ELSE IF reg.cfcli
    THEN LET modfiles == ModFilesOfSlugs(reg, slugs0,
                                         ReleaseTypeId(NormalType(releaseType)))
         IN  [i \in 1..Len(modfiles) |-> modfiles[i].slug]
    ELSE <<>>

RECURSIVE IsSubsequence(_, _)
IsSubsequence(s, t) ==
    IF Len(s) = 0 THEN TRUE
    ELSE IF Len(t) = 0 THEN FALSE
    ELSE IF Head(s) = Head(t) THEN IsSubsequence(Tail(s), Tail(t))
    ELSE IsSubsequence(s, Tail(t))

\* C5 as claimed: after search_modrinth or search_curseforge returns, the
\* caller's list of requested identifiers holds the same elements in the
\* same order as before the call.
C5_CallerListUnchanged == Returned => slugs = slugs0

\* C5 amended: after either search returns, the caller's list is the original
\* list in its original order with one occurrence removed for each selection
\* of the direct phase (the selected project's or mod's slug), and nothing
\* else removed: what is left in the caller's list is the unresolved
\* identifiers.
C5_CallerListLosesSelected ==
    Returned =>
        /\ IsSubsequence(slugs, slugs0)
        /\ \A x \in Range(slugs0) \cup Range(SelectedSlugs) :
              Count(slugs, x) + Count(SelectedSlugs, x) = Count(slugs0, x)

C5_SomeRemovedSomeLeft == Returned /\ Len(slugs) < Len(slugs0) /\ Len(slugs) > 0

\* every required dependency of a resolved file is a mod with a resolved file
CfClosed ==
    \A i \in 1..Len(result) : \A dep \in Range(result[i].dependencies) :
        dep.relationType = 3 => \E j \in 1..Len(result) : result[j].modId = dep.modId

\* C6: the closure loop of search_curseforge stops as soon as a pass finds no
\* required dependency whose mod is outside the resolved set: from a loop
\* state whose resolved files are closed under required dependencies, the
\* next step is the return.
C6_ClosureStopsWhenClosed ==
    [][(spc = "cf_loop" /\ CfClosed) => spc' = "cf_done"]_vars

\* C7: every pass of the closure loop of search_modrinth that does not break
\* adds a project to the seen-project set or a version to the seen-version
\* set.
C7_PassAddsToSeenSets ==
    [][(spc = "mr_loop" /\ spc' = "mr_loop")
          => (bucket_mod' # bucket_mod \/ bucket_ver' # bucket_ver)]_vars

\* a registry version of the project passes the platform and tier filters
HasCandidate(project_id) ==
    \E ver \in Range(list_project_versions(reg, project_id)) :
        filter_version_loader(ver) /\ TierAccepts(ver, NormalType(releaseType))

\* the registry's record of the project passes the platform filter
ProjectPasses(project_id) ==
    \E pro \in Range(reg.projects) : pro.id = project_id /\ filter_version_loader(pro)

InResult(project_id) == \E j \in 1..Len(result) : result[j].project_id = project_id

RequiredProjects ==
    {dep.project_id : dep \in {d \in Range(RequiredDeps(result)) : d.project_id # None}}

\* C8 as claimed: for every version search_modrinth returns and every
\* required dependency of it that names a project, if the project has a
\* version passing the platform and tier filters then a version of the
\* project is in the returned list.
C8_ClosureYieldsRequired ==
    spc = "mr_done" =>
        \A project_id \in RequiredProjects : HasCandidate(project_id) => InResult(project_id)

\* C8 amended: the same, for the projects whose own registry record passes
\* the platform filter too (get_latest_versions filters the project records
\* before it lists their versions).
C8_ClosureYieldsRequiredOfPassingProjects ==
    spc = "mr_done" =>
        \A project_id \in RequiredProjects :
            (ProjectPasses(project_id) /\ HasCandidate(project_id)) => InResult(project_id)

C8_DependencyPulledIn ==
    /\ spc = "mr_done"
    /\ slugs0 = <<"a">>
    /\ \E project_id \in RequiredProjects :
          /\ project_id # "PA"
          /\ ProjectPasses(project_id) /\ HasCandidate(project_id)
          /\ InResult(project_id)

\* C9 as claimed: no two version records in the list search_modrinth returns
\* belong to the same project.
C9_OneVersionPerProject ==
    spc = "mr_done" =>
        \A i, j \in 1..Len(result) :
            result[i].project_id = result[j].project_id => i = j

\* the version ids that required dependencies of resolved versions name
RequiredVersionIds ==
    {dep.version_id : dep \in {d \in Range(RequiredDeps(result)) : d.version_id # None}}

\* C9 amended: of any two version records of the same project in the list
\* search_modrinth builds, at least one is a version that a required
\* dependency of a resolved version names by version id; the versions
\* selected as a project's latest are one per project.
C9_OneSelectedVersionPerProject ==
    spc \in {"mr_loop", "mr_done"} =>
        \A i, j \in 1..Len(result) :
            (i # j /\ result[i].project_id = result[j].project_id)
                => (result[i].id \in RequiredVersionIds \/ result[j].id \in RequiredVersionIds)

C9_TwoVersionsOfOneProject ==
    /\ spc = "mr_done"
    /\ \E i, j \in 1..Len(result) :
          /\ result[i].project_id = result[j].project_id
          /\ result[i].id # result[j].id

\* C10: in every pass of the closure loop of search_modrinth, each version id
\* that a required dependency names and that is not a seen version is in the
\* resolved output after the pass.
C10_VersionIdFetched ==
    [][spc = "mr_loop"
          => \A verid \in DepVer(versions, bucket_ver) : verid \in Ids(result')]_vars

\* the (project, version) pairs the direct phase of search_modrinth gets
DirectPairs ==
    get_latest_versions(reg, get_projects(reg, Range(slugs0)), NormalType(releaseType))

\* the identifier names, by id or by slug, a project with a selected version
IdentifierSelected(x) ==
    \E k \in 1..Len(DirectPairs) :
        DirectPairs[k].project.id = x \/ DirectPairs[k].project.slug = x

\* C12: after the direct phase of search_modrinth no error has been raised
\* and the outstanding list holds exactly the requested identifiers for
\* which no version was selected: an identifier whose project got a selected
\* version is no longer in it, every other requested identifier still is.
C12_OutstandingAreUnselected ==
    spc \in {"mr_loop", "mr_done", "raised"} =>
        /\ spc # "raised"
        /\ Range(slugs) \subseteq Range(slugs0)
        /\ \A x \in Range(slugs0) : x \in Range(slugs) <=> ~IdentifierSelected(x)

\* C19: in the closure the seen-project and seen-version sets only grow, a
\* pass looks projects up at most once (one set of ids, in one call), and no
\* project already marked seen is among the projects a pass looks up.
C19_SeenSetsGrowNoRepeatedLookup ==
    [][spc = "mr_loop" =>
          /\ bucket_mod \subseteq bucket_mod'
          /\ bucket_ver \subseteq bucket_ver'
          /\ looked' # looked =>
                /\ Len(looked') = Len(looked) + 1
                /\ SubSeq(looked', 1, Len(looked)) = looked
                /\ looked'[Len(looked')] \cap bucket_mod = {}]_vars

\* a required dependency of the versions just fetched names a project that
\* the last pass looked up and marked seen
C19_SeenProjectRequiredAgain ==
    /\ spc = "mr_loop" /\ Len(looked) >= 2
    /\ \E i \in 1..Len(versions) : \E k \in 1..Len(versions[i].dependencies) :
          /\ versions[i].dependencies[k].dependency_type = "required"
          /\ versions[i].dependencies[k].project_id \in bucket_mod
          /\ versions[i].dependencies[k].project_id \in looked[Len(looked)]

====
